---- MODULE Spec2Model ----
(***************************************************************************)
(* State-machine model of the OBIGGRILLS API server                        *)
(* (src/routes/product.js, lines 646-1364; src/unnamed/part_001 carries    *)
(* the same user and order handlers).                                      *)
(*                                                                         *)
(* Strings on which the code works character by character (email, name,    *)
(* nickname, phone) are sequences of one-character strings.  A request     *)
(* body is a function from the keys it carries to their values: a key      *)
(* outside its DOMAIN is a field the request does not have.                *)
(*                                                                         *)
(* Every database operation (findOne, save) of a user handler is one       *)
(* atomic step; the handler code that runs between two awaits is part of   *)
(* the step of the database operation it follows.  A product or order      *)
(* handler has one database operation and is one step.                     *)
(*                                                                         *)
(* A value of a product or order request is tagged with its JavaScript     *)
(* type.  ObjectIds are written with 2 hexadecimal characters, file sizes  *)
(* in megabytes, and time is the count of the clock's steps.               *)
(*                                                                         *)
(* An answer records who sent it (a route handler, the error-handling      *)
(* middleware, the CORS middleware or the 404 handler) and the keys of its *)
(* JSON object.  The process is connected to the database from the start,  *)
(* except under SpecStartup, which begins with mongoose.connect pending.   *)
(***************************************************************************)
EXTENDS Integers, Sequences, FiniteSets, TLC

VARIABLES
    users,      \* the User collection, in insertion order
    pending,    \* requests that awaited findOne and have not yet run save
    resp,       \* the request answered last and its answer
    orders,     \* the Order collection, in insertion order
    products,   \* the Product collection, in insertion order
    images,     \* the files the image store (Cloudinary) holds
    now,        \* the clock that new Date() reads
    nextId,     \* how many ObjectIds the process has generated, plus one
    log,        \* history: the ids of the products created and of those deleted
    proc,       \* the process: "connecting", "connected", "failed" or "exited"
    plan        \* history: the two requests of a race on one user, the user
                \* before them, and which of the two were sent

vars == <<users, pending, resp, orders, products, images, now, nextId, log, proc, plan>>

\* What the user handlers leave alone.
shop == <<orders, products, images, now, nextId, log, proc, plan>>

\* How many requests may be between their findOne and their save at once.
MaxPending == 2

\* How many orders the collection may hold.
MaxOrders == 2

\* How many products the collection may hold.
MaxProducts == 2

\* How many ObjectIds are generated.
MaxIds == 3

\* How many files the image store may hold.
MaxImages == 1

\* How far the clock runs.
MaxClock == 1

(***************************************************************************)
(* JavaScript string operations                                            *)
(***************************************************************************)

\* String.prototype.trim strips white space: the space and the tab here.
IsSpace(c) == c \in {" ", "\t"}

LowerChar(c) ==
    CASE c = "A" -> "a"
      [] c = "B" -> "b"
      [] OTHER -> c

toLowerCase(s) == [i \in 1..Len(s) |-> LowerChar(s[i])]

RECURSIVE TrimStart(_)
TrimStart(s) ==
    IF s # <<>> /\ IsSpace(Head(s)) THEN TrimStart(Tail(s)) ELSE s

RECURSIVE TrimEnd(_)
TrimEnd(s) ==
    IF s # <<>> /\ IsSpace(s[Len(s)]) THEN TrimEnd(SubSeq(s, 1, Len(s) - 1)) ELSE s

trim(s) == TrimEnd(TrimStart(s))

\* name.split(' ')[0]: the characters before the first space character.
RECURSIVE SplitFirst(_)
SplitFirst(s) ==
    IF s = <<>> \/ Head(s) = " " THEN <<>> ELSE <<Head(s)>> \o SplitFirst(Tail(s))

\* !body.key : the key is missing or holds the empty string.
Falsy(body, key) == key \notin DOMAIN body \/ body[key] = <<>>

(***************************************************************************)
(* userSchema and the User collection                                      *)
(***************************************************************************)

DefaultPreferences == [favoriteItems |-> <<>>, deliveryInstructions |-> <<>>]

UserFields == {"email", "name", "nickname", "phone", "addresses", "preferences"}

\* Setters of the email path (lowercase: true, trim: true).  Mongoose runs a
\* path's setters on documents and on the conditions of a query alike.
CastEmail_NoTrim(s) == toLowerCase(s)

CastEmail(s) == toLowerCase(trim(s))

\* new User(fields): the schema's defaults for the paths not given, the
\* setters applied to email.
NewUser(fields) ==
    [email       |-> CastEmail(fields.email),
     name        |-> IF "name" \in DOMAIN fields THEN fields.name ELSE <<>>,
     nickname    |-> IF "nickname" \in DOMAIN fields THEN fields.nickname ELSE <<>>,
     phone       |-> IF "phone" \in DOMAIN fields THEN fields.phone ELSE <<>>,
     addresses   |-> <<>>,
     preferences |-> DefaultPreferences]

\* User.findOne({ email: q }): the position of the matching document, 0 for
\* null.  The condition is cast by the email path.
FindOne_First(coll, q) == IF coll = <<>> THEN 0 ELSE 1

FindOne(coll, q) ==
    IF \E i \in 1..Len(coll) : coll[i].email = CastEmail(q)
    THEN CHOOSE i \in 1..Len(coll) : coll[i].email = CastEmail(q)
    ELSE 0

\* required: true on a String path rejects the empty string.
ValidUser(doc) == doc.email # <<>>

\* unique: true: the index rejects a second document with the same email.
DuplicateKey_Off(coll, doc) == FALSE

DuplicateKey(coll, doc) == \E i \in 1..Len(coll) : coll[i].email = doc.email

NoUser == [none |-> TRUE]

NoReq == [email |-> <<>>, body |-> <<>>]

\* The keys of the JSON object that the handler of op sends with status;
\* none where it sends a document or an array of documents as it is.
JsonKeys(op, status) ==
    CASE op \in {"createBasic", "patch"} ->
             IF status >= 400 THEN {"success", "message"}
             ELSE {"success", "message", "user"}
      [] op = "register" ->
             IF status = 500 THEN {"success", "message", "error"}
             ELSE IF status = 400 THEN {"success", "message"}
             ELSE {"success", "message", "user"}
      [] op = "getUser" ->
             IF status >= 400 THEN {"success", "message"} ELSE {}
      [] op = "createProduct" ->
             IF status = 500 THEN {"success", "message", "error"}
             ELSE IF status = 400 THEN {"success", "message"}
             ELSE {"success", "message", "product"}
      [] op = "deleteProduct" -> {"message"}
      [] op = "createOrder" ->
             IF status = 500 THEN {"message", "error"}
             ELSE IF status = 400 THEN {"message"}
             ELSE {"message", "orderId", "order"}
      [] op = "patchOrder" ->
             IF status = 500 THEN {"success", "message", "error"}
             ELSE IF status >= 400 THEN {"success", "message"}
             ELSE {"success", "message", "order"}
      [] OTHER -> {}

\* res.status(status).json(...) in a route handler.  again records the
\* status of the answer before this one when that one answered the same
\* request, 0 otherwise.
Respond(op, req, status, user) ==
    resp' = [op |-> op, req |-> req, status |-> status, user |-> user,
             by |-> "handler", keys |-> JsonKeys(op, status),
             again |-> IF resp.op = op /\ resp.req = req THEN resp.status ELSE 0]

\* document.save() of a new document: validation, then the insert.
\* The handler's catch answers 500 on either failure.
SaveNew(p, created) ==
    /\ pending' = pending \ {p}
    /\ UNCHANGED shop
    /\ IF ValidUser(p.doc) /\ ~DuplicateKey(users, p.doc)
       THEN /\ users' = Append(users, p.doc)
            /\ Respond(p.op, p.req, created, p.doc)
       ELSE /\ users' = users
            /\ Respond(p.op, p.req, 500, NoUser)

\* document.save() of a loaded document: $set of the modified paths on the
\* stored document with that _id.
SaveLoaded(p) ==
    /\ pending' = pending \ {p}
    /\ UNCHANGED shop
    /\ users' = [users EXCEPT ![p.idx] =
                    [f \in UserFields |-> IF f \in p.modified THEN p.doc[f] ELSE @[f]]]
    /\ Respond(p.op, p.req, 200, p.doc)

\* The paths of the in-memory document that differ from the loaded one.
Modified(loaded, doc) == {f \in UserFields : doc[f] # loaded[f]}

\* No race is planned.
NoPlan == [none |-> TRUE]

\* The handler awaits save() on doc.  Of the requests of a planned race,
\* plan records those that came this far.
Await(op, req, idx, loaded, doc) ==
    /\ pending' = pending \cup
         {[op |-> op, req |-> req, idx |-> idx, doc |-> doc,
           modified |-> IF idx = 0 THEN UserFields ELSE Modified(loaded, doc)]}
    /\ plan' = IF plan = NoPlan THEN plan ELSE [plan EXCEPT !.sent = @ \cup {op}]
    /\ UNCHANGED <<users, resp, orders, products, images, now, nextId, log, proc>>

(***************************************************************************)
(* Request inputs                                                          *)
(***************************************************************************)

\* The requests name two identities, "a" (written "a", "A", " A" and " A ")
\* and "b", and carry an email of white space only and an empty one.
GetParams == {<<"A">>, <<" ", "A", " ">>, <<"b">>}

CreateBasicBodies ==
    {[email |-> <<"a">>, nickname |-> <<"N">>],
     [email |-> <<" ", "A", " ">>, nickname |-> <<" ", "N", " ">>],
     [email |-> <<"b">>, nickname |-> <<"N">>],
     [email |-> <<" ">>, nickname |-> <<"N">>],
     [email |-> <<"a">>, nickname |-> <<>>],
     [nickname |-> <<"N">>]}

RegisterBodies ==
    {[name |-> <<"J", " ", "D">>, email |-> <<"A">>, phone |-> <<"1">>],
     [name |-> <<" ", "J">>, email |-> <<"a">>, phone |-> <<"1">>],
     [name |-> <<"J", "\t", "D">>, email |-> <<" ", "A", " ">>, phone |-> <<"1">>],
     [name |-> <<"J", " ", " ", "D">>, email |-> <<" ">>, phone |-> <<"1">>],
     [name |-> <<>>, email |-> <<"a">>, phone |-> <<"1">>],
     [name |-> <<"J", " ", "D">>, email |-> <<"a">>]}

SomeAddresses == <<[name |-> "home", address |-> "x", isDefault |-> TRUE]>>

SomePreferences == [favoriteItems |-> <<"wings">>, deliveryInstructions |-> <<>>]

PatchBodies ==
    {<<>>,
     [email |-> <<"z">>],
     [name |-> <<"N">>],
     [nickname |-> <<"N">>],
     [nickname |-> <<>>],
     [phone |-> <<>>],
     [addresses |-> SomeAddresses],
     [preferences |-> SomePreferences],
     [email |-> <<"b">>, name |-> <<"N">>, phone |-> <<>>],
     [name |-> <<"N">>, nickname |-> <<"N">>, phone |-> <<>>,
      addresses |-> SomeAddresses, preferences |-> SomePreferences]}

\* The :email segment of a path is never empty.
PatchParams == {<<" ", "A">>}

\* The requests that overlap in SpecConc.
ConcCreateBasicBodies ==
    {[email |-> <<"a">>, nickname |-> <<"N">>],
     [email |-> <<" ", "A", " ">>, nickname |-> <<" ", "N", " ">>],
     [email |-> <<"b">>, nickname |-> <<"N">>]}

ConcRegisterBodies ==
    {[name |-> <<"J", " ", "D">>, email |-> <<"A">>, phone |-> <<"1">>],
     [name |-> <<" ", "J">>, email |-> <<"a">>, phone |-> <<"1">>]}

ConcPatchBodies == {[email |-> <<"b">>, nickname |-> <<"N">>]}

ConcParams == {<<"A">>}

(***************************************************************************)
(* POST /api/users/create-basic                                            *)
(***************************************************************************)

CreateBasicFind(body) ==
    LET req == [email |-> <<>>, body |-> body] IN
    IF Falsy(body, "email") \/ Falsy(body, "nickname")
    THEN /\ Respond("createBasic", req, 400, NoUser)
         /\ UNCHANGED <<users, pending, shop>>
    ELSE LET existing == FindOne(users, toLowerCase(body.email)) IN
         IF existing # 0
         THEN /\ Respond("createBasic", req, 200, users[existing])
              /\ UNCHANGED <<users, pending, shop>>
         ELSE Await("createBasic", req, 0, NoUser,
                    NewUser([email    |-> trim(toLowerCase(body.email)),
                             nickname |-> trim(body.nickname),
                             name     |-> trim(body.nickname)]))

CreateBasicSave(p) ==
    /\ p.op = "createBasic"
    /\ SaveNew(p, 201)

(***************************************************************************)
(* GET /api/users/:email                                                   *)
(***************************************************************************)

GetUser(email) ==
    LET req  == [email |-> email, body |-> <<>>]
        user == FindOne(users, toLowerCase(email))
    IN  /\ IF user = 0
           THEN Respond("getUser", req, 404, NoUser)
           ELSE Respond("getUser", req, 200, users[user])
        /\ UNCHANGED <<users, pending, shop>>

(***************************************************************************)
(* PATCH /api/users/:email                                                 *)
(***************************************************************************)

\* Object.keys(req.body).forEach(key => { if (... && key !== 'email') user[key] = ... })
PatchUpdate_AlsoEmail(user, body) ==
    [f \in UserFields |-> IF f \in DOMAIN body THEN body[f] ELSE user[f]]

PatchUpdate(user, body) ==
    [f \in UserFields |->
        IF f \in DOMAIN body /\ f # "email" THEN body[f] ELSE user[f]]

PatchFind(email, body) ==
    LET req  == [email |-> email, body |-> body]
        user == FindOne(users, toLowerCase(email))
    IN  IF user = 0
        THEN /\ Respond("patch", req, 404, NoUser)
             /\ UNCHANGED <<users, pending, shop>>
        ELSE Await("patch", req, user, users[user], PatchUpdate(users[user], body))

PatchSave(p) ==
    /\ p.op = "patch"
    /\ SaveLoaded(p)

(***************************************************************************)
(* POST /api/users/register                                                *)
(***************************************************************************)

\* The branch for a user that exists: name and phone are assigned, nickname
\* only when it is empty.
RegisterUpdate_AlwaysNickname(user, body) ==
    [user EXCEPT !.name = body.name, !.phone = body.phone,
                 !.nickname = SplitFirst(body.name)]

RegisterUpdate(user, body) ==
    [user EXCEPT !.name = body.name, !.phone = body.phone,
                 !.nickname = IF @ = <<>> THEN SplitFirst(body.name) ELSE @]

RegisterFind(body) ==
    LET req == [email |-> <<>>, body |-> body] IN
    IF Falsy(body, "name") \/ Falsy(body, "email") \/ Falsy(body, "phone")
    THEN /\ Respond("register", req, 400, NoUser)
         /\ UNCHANGED <<users, pending, shop>>
    ELSE LET user == FindOne(users, toLowerCase(body.email)) IN
         IF user # 0
         THEN Await("register", req, user, users[user], RegisterUpdate(users[user], body))
         ELSE Await("register", req, 0, NoUser,
                    NewUser([name     |-> body.name,
                             nickname |-> SplitFirst(body.name),
                             email    |-> toLowerCase(body.email),
                             phone    |-> body.phone]))

RegisterSave(p) ==
    /\ p.op = "register"
    /\ IF p.idx = 0 THEN SaveNew(p, 201) ELSE SaveLoaded(p)

(***************************************************************************)
(* JavaScript numbers                                                      *)
(***************************************************************************)

\* A body's number is [t |-> "number", n |-> ..], its string is
\* [t |-> "string", s |-> <<characters>>], its boolean [t |-> "boolean",
\* b |-> ..], its null [t |-> "null"].
Number(n) == [t |-> "number", n |-> n]

String(s) == [t |-> "string", s |-> s]

Boolean(b) == [t |-> "boolean", b |-> b]

JsNull == [t |-> "null"]

\* The result of parseFloat: a finite number, Infinity or NaN.
NaN == [nan |-> TRUE, inf |-> FALSE, n |-> 0]

Num(n) == [nan |-> FALSE, inf |-> FALSE, n |-> n]

Infinity == [nan |-> FALSE, inf |-> TRUE, n |-> 0]

\* s.startsWith(prefix)
StartsWith(s, prefix) ==
    Len(s) >= Len(prefix) /\ SubSeq(s, 1, Len(prefix)) = prefix

Digits == {"0", "1", "2", "3", "4", "5", "6", "7", "8", "9"}

DigitValue(c) ==
    CASE c = "0" -> 0 [] c = "1" -> 1 [] c = "2" -> 2 [] c = "3" -> 3 [] c = "4" -> 4
      [] c = "5" -> 5 [] c = "6" -> 6 [] c = "7" -> 7 [] c = "8" -> 8 [] OTHER -> 9

\* The value of the longest prefix of digits of s, read after acc.
RECURSIVE ReadDigits(_, _)
ReadDigits(s, acc) ==
    IF s # <<>> /\ Head(s) \in Digits
    THEN ReadDigits(Tail(s), 10 * acc + DigitValue(Head(s)))
    ELSE acc

\* parseFloat(body.key): a number is itself; a string is read after its
\* leading white space up to the first character that is no digit, and is
\* Infinity when it starts with that word; anything else, and undefined, is
\* NaN.  (Signs, fractions and exponents are not in the model's requests.)
parseFloat_WholeString(body, key) ==
    IF key \notin DOMAIN body THEN NaN
    ELSE LET v == body[key] IN
         IF v.t = "number" THEN Num(v.n)
         ELSE IF v.t # "string" THEN NaN
         ELSE LET t == TrimStart(v.s) IN
              IF t # <<>> /\ \A i \in 1..Len(t) : t[i] \in Digits
              THEN Num(ReadDigits(t, 0))
              ELSE NaN

parseFloat(body, key) ==
    IF key \notin DOMAIN body THEN NaN
    ELSE LET v == body[key] IN
         IF v.t = "number" THEN Num(v.n)
         ELSE IF v.t # "string" THEN NaN
         ELSE LET t == TrimStart(v.s) IN
              IF t # <<>> /\ Head(t) \in Digits THEN Num(ReadDigits(t, 0))
              ELSE IF StartsWith(t, <<"I", "n", "f", "i", "n", "i", "t", "y">>)
                   THEN Infinity
                   ELSE NaN

\* a || b on numbers: NaN and 0 are falsy.
OrElse(a, b) == IF a.nan \/ (~a.inf /\ a.n = 0) THEN b ELSE a

(***************************************************************************)
(* orderSchema and POST /api/orders                                        *)
(***************************************************************************)

Null == "null"

\* obj.key, with "undefined" for a key the object does not have.
Get(obj, key) == IF key \in DOMAIN obj THEN obj[key] ELSE "undefined"

\* value || fallback on strings and objects.
Or(obj, key, fallback) ==
    IF key \notin DOMAIN obj \/ obj[key] = "" THEN fallback ELSE obj[key]

\* The handler's two checks before it builds orderData.
InvalidOrder_NoLength(order) ==
    \/ "customer" \notin DOMAIN order
    \/ "items" \notin DOMAIN order

InvalidOrder(order) ==
    \/ "customer" \notin DOMAIN order
    \/ "items" \notin DOMAIN order
    \/ Len(order.items) = 0

NoCustomerEmail(order) ==
    "email" \notin DOMAIN order.customer \/ order.customer.email = ""

\* The sum of price * quantity over items.
RECURSIVE ItemsTotal(_)
ItemsTotal(items) ==
    IF items = <<>> THEN 0
    ELSE Head(items).price * Head(items).quantity + ItemsTotal(Tail(items))

OrderData_Recomputed(order) ==
    [customer |-> [name    |-> Get(order.customer, "name"),
                   address |-> Get(order.customer, "address"),
                   phone   |-> Get(order.customer, "phone"),
                   email   |-> order.customer.email],
     items            |-> order.items,
     subtotal         |-> OrElse(parseFloat(order, "subtotal"), parseFloat(order, "total")),
     deliveryFee      |-> OrElse(parseFloat(order, "deliveryFee"), Num(0)),
     deliveryLocation |-> Or(order, "deliveryLocation", Null),
     total            |-> Num(ItemsTotal(order.items)),
     paymentMethod    |-> Get(order, "paymentMethod"),
     paymentReference |-> Or(order, "paymentReference", Null),
     paymentStatus    |-> Or(order, "paymentStatus", "pending"),
     orderReference   |-> Or(order, "orderReference", Null),
     fulfilled        |-> Boolean(FALSE)]

OrderData(order) ==
    [customer |-> [name    |-> Get(order.customer, "name"),
                   address |-> Get(order.customer, "address"),
                   phone   |-> Get(order.customer, "phone"),
                   email   |-> order.customer.email],
     items            |-> order.items,
     subtotal         |-> OrElse(parseFloat(order, "subtotal"), parseFloat(order, "total")),
     deliveryFee      |-> OrElse(parseFloat(order, "deliveryFee"), Num(0)),
     deliveryLocation |-> Or(order, "deliveryLocation", Null),
     total            |-> parseFloat(order, "total"),
     paymentMethod    |-> Get(order, "paymentMethod"),
     paymentReference |-> Or(order, "paymentReference", Null),
     paymentStatus    |-> Or(order, "paymentStatus", "pending"),
     orderReference   |-> Or(order, "orderReference", Null),
     fulfilled        |-> Boolean(FALSE)]

\* required: true on a String path: undefined and the empty string fail.
Required(v) == v \notin {"undefined", ""}

\* Validation of new Order(orderData) on save: the required paths, and the
\* Number paths, which do not cast NaN.
ValidOrder(data) ==
    /\ Required(data.customer.name)
    /\ Required(data.customer.address)
    /\ Required(data.customer.phone)
    /\ Required(data.customer.email)
    /\ Required(data.paymentMethod)
    /\ ~data.total.nan
    /\ ~data.subtotal.nan
    /\ ~data.deliveryFee.nan

\* The paths of an element of items.
ItemPaths == {"id", "name", "price", "quantity"}

\* The cast of items to the schema's array of subdocuments: each element
\* keeps the paths of the schema that it has, in the order of the request.
CastItems(items) ==
    [i \in 1..Len(items) |-> [k \in DOMAIN items[i] \cap ItemPaths |-> items[i][k]]]

\* The stored document: the Number paths hold the numbers (the amounts of
\* the model's orders are finite).
OrderDoc(data) ==
    [data EXCEPT !.subtotal = @.n, !.deliveryFee = @.n, !.total = @.n,
                 !.items = CastItems(@)]

\* new Date(): the clock moves on between requests.
Tick ==
    /\ now < MaxClock
    /\ now' = now + 1
    /\ UNCHANGED <<users, pending, proc, plan, resp, orders, products, images, nextId, log>>

\* An ObjectId is written as 24 hexadecimal characters; the model writes it
\* with 2, in the digits and the letters a, b, A, B.
HexChars == Digits \cup {"a", "b", "A", "B"}

DigitChar(n) == CHOOSE c \in Digits : DigitValue(c) = n

\* new ObjectId(): the n-th identifier the process generates.
ObjectId(n) == <<"a", DigitChar(n)>>

\* mongoose.Types.ObjectId.isValid on a string of the route.
isValid_AnyLength(id) == \A i \in 1..Len(id) : id[i] \in HexChars

isValid(id) == Len(id) = 2 /\ \A i \in 1..Len(id) : id[i] \in HexChars

\* The cast of a well-formed id string to an ObjectId: the value of its
\* hexadecimal digits, upper or lower case.
castObjectId(id) == toLowerCase(id)

\* findById: the position of the document with this _id, 0 when there is none.
FindById_First(coll, id) == IF Len(coll) > 0 THEN 1 ELSE 0

FindById(coll, id) ==
    IF \E i \in 1..Len(coll) : coll[i]._id = castObjectId(id)
    THEN CHOOSE i \in 1..Len(coll) : coll[i]._id = castObjectId(id)
    ELSE 0

\* The document as the collection stores it: _id and the timestamps of
\* { timestamps: true }.
Stored(doc, id, t) == doc @@ [_id |-> id, createdAt |-> t, updatedAt |-> t]

NoOrder == [none |-> TRUE]

RespondOrder(op, req, status, order) ==
    resp' = [op |-> op, req |-> req, status |-> status, order |-> order,
             by |-> "handler", keys |-> JsonKeys(op, status),
             again |-> IF resp.op = op /\ resp.req = req THEN resp.status ELSE 0]

CreateOrder(order) ==
    /\ Len(orders) < MaxOrders
    /\ nextId <= MaxIds
    /\ UNCHANGED <<users, pending, proc, plan, products, images, now, log>>
    /\ IF InvalidOrder(order) \/ NoCustomerEmail(order)
       THEN /\ RespondOrder("createOrder", order, 400, NoOrder)
            /\ UNCHANGED <<orders, nextId>>
       ELSE IF ValidOrder(OrderData(order))
            THEN LET newOrder == Stored(OrderDoc(OrderData(order)), ObjectId(nextId), now)
                 IN  /\ orders' = Append(orders, newOrder)
                     /\ nextId' = nextId + 1
                     /\ RespondOrder("createOrder", order, 201, newOrder)
            ELSE /\ RespondOrder("createOrder", order, 500, NoOrder)
                 /\ UNCHANGED <<orders, nextId>>

(***************************************************************************)
(* PATCH /api/orders/:id                                                   *)
(***************************************************************************)

CastError == [t |-> "CastError"]

\* The cast of a value to the Boolean path fulfilled: the strings and numbers
\* that stand for true and false are cast, null stays null, anything else
\* is refused.
castBoolean(v) ==
    CASE v.t = "boolean" -> v
      [] v.t = "null" -> v
      [] v.t = "string" /\ v.s \in {<<"1">>, <<"y", "e", "s">>, <<"t", "r", "u", "e">>}
            -> Boolean(TRUE)
      [] v.t = "string" /\ v.s \in {<<"0">>, <<"n", "o">>, <<"f", "a", "l", "s", "e">>}
            -> Boolean(FALSE)
      [] v.t = "number" /\ v.n = 1 -> Boolean(TRUE)
      [] v.t = "number" /\ v.n = 0 -> Boolean(FALSE)
      [] OTHER -> CastError

\* The values { fulfilled: fulfilled } may write.  A body without fulfilled
\* gives { fulfilled: undefined }: the Mongoose versions that strip undefined
\* keys from an update write nothing, the others write null.
FulfilledUpdate_Toggle(order, body) ==
    IF "fulfilled" \notin DOMAIN body
    THEN {order.fulfilled, JsNull}
    ELSE IF castBoolean(body.fulfilled) = order.fulfilled /\ order.fulfilled.t = "boolean"
         THEN {Boolean(~order.fulfilled.b)}
         ELSE {castBoolean(body.fulfilled)}

FulfilledUpdate(order, body) ==
    IF "fulfilled" \notin DOMAIN body
    THEN {order.fulfilled, JsNull}
    ELSE {castBoolean(body.fulfilled)}

\* The document after { fulfilled: f } is applied at time t: the update
\* sets fulfilled, and { timestamps: true } sets updatedAt.
Updated_AlsoStatus(order, f, t) ==
    [order EXCEPT !.fulfilled = f, !.updatedAt = t, !.paymentStatus = "paid"]

Updated(order, f, t) == [order EXCEPT !.fulfilled = f, !.updatedAt = t]

PatchOrder(id, body) ==
    /\ UNCHANGED <<users, pending, proc, plan, products, images, now, nextId, log>>
    /\ LET req == [id |-> id, body |-> body] IN
       IF ~isValid(id)
       THEN /\ RespondOrder("patchOrder", req, 400, NoOrder)
            /\ UNCHANGED orders
       ELSE IF "fulfilled" \in DOMAIN body /\ castBoolean(body.fulfilled) = CastError
            THEN /\ RespondOrder("patchOrder", req, 500, NoOrder)
                 /\ UNCHANGED orders
            ELSE LET i == FindById(orders, id) IN
                 IF i = 0
                 THEN /\ RespondOrder("patchOrder", req, 404, NoOrder)
                      /\ UNCHANGED orders
                 ELSE \E f \in FulfilledUpdate(orders[i], body) :
                         LET updatedOrder == Updated(orders[i], f, now)
                         IN  /\ orders' = [orders EXCEPT ![i] = updatedOrder]
                             /\ RespondOrder("patchOrder", req, 200, updatedOrder)

\* The ids of the first two documents, the first in capitals, a well-formed
\* id no document has, and ids that are not well-formed.
OrderIds == {<<"a", "1">>, <<"A", "1">>, <<"a", "2">>, <<"b", "9">>, <<"z", "z">>, <<"a">>}

PatchOrderBodies ==
    {[fulfilled |-> Boolean(TRUE)], [fulfilled |-> Boolean(FALSE)],
     [fulfilled |-> String(<<"a">>)], [fulfilled |-> JsNull], <<>>}

\* The order of the specification's scenario, and requests that differ from it.
Customer == [name |-> "A", address |-> "X", phone |-> "1", email |-> "a@b.com"]

Burger == [id |-> "1", name |-> "Burger", price |-> 5, quantity |-> 2]

Fries == [id |-> "2", name |-> "Fries", price |-> 3, quantity |-> 1]

BaseOrder ==
    [customer |-> Customer, items |-> <<Burger>>, total |-> Number(10),
     paymentMethod |-> "cash"]

\* f without key k.
Without(f, k) == [x \in DOMAIN f \ {k} |-> f[x]]

AmountInputs ==
    {Number(0), Number(8), String(<<"7">>), String(<<"a", "b", "c">>)}

FeeInputs == {Number(0), Number(2), String(<<"a", "b", "c">>)}

OrderBodies ==
    {BaseOrder, Without(BaseOrder, "customer"), Without(BaseOrder, "items"),
     Without(BaseOrder, "total"), Without(BaseOrder, "paymentMethod"),
     [BaseOrder EXCEPT !.items = <<>>],
     [BaseOrder EXCEPT !.total = Number(0)],
     Without(Without(BaseOrder, "items"), "total"),
     BaseOrder @@ [fulfilled |-> Boolean(TRUE), paymentStatus |-> "paid"]}
    \cup {[BaseOrder EXCEPT !.customer = Without(Customer, k)] : k \in DOMAIN Customer}
    \cup {[BaseOrder EXCEPT !.customer = [Customer EXCEPT ![k] = ""]] : k \in DOMAIN Customer}
    \cup {BaseOrder @@ [subtotal |-> a] : a \in AmountInputs}
    \cup {BaseOrder @@ [deliveryFee |-> f] : f \in FeeInputs}
    \cup {[BaseOrder EXCEPT !.items = <<Fries, Burger>>],
          [BaseOrder EXCEPT !.items = <<Burger, Fries>>, !.total = Number(13)],
          [BaseOrder EXCEPT !.items = <<Burger, Burger>>, !.total = Number(1)],
          [BaseOrder EXCEPT !.items = <<Burger @@ [image |-> "b.png"]>>]}
    \cup {BaseOrder @@ [subtotal |-> Number(8), deliveryFee |-> Number(2)],
          [BaseOrder EXCEPT !.total = Number(0)] @@ [subtotal |-> Number(0)],
          [BaseOrder EXCEPT !.items = <<>>] @@ [subtotal |-> Number(8)]}

(***************************************************************************)
(* upload (multer with Cloudinary storage), productSchema and the product  *)
(* routes                                                                  *)
(***************************************************************************)

\* limits.fileSize, in megabytes.
FileSizeLimit == 5

\* storage params.allowed_formats
AllowedFormats == {"jpg", "jpeg", "png", "webp"}

\* fileFilter: file.mimetype.startsWith('image/'), the MIME type written as
\* <<type, "/", subtype>>.
FileFilter(file) == StartsWith(file.mimetype, <<"image", "/">>)

\* The URL the image store gives the n-th file it takes.
Url(n) == <<"u", DigitChar(n)>>

\* !value for a value of the request body.
Not(body, key) ==
    \/ key \notin DOMAIN body
    \/ body[key].t = "null"
    \/ body[key].t = "string" /\ body[key].s = <<>>
    \/ body[key].t = "number" /\ body[key].n = 0
    \/ body[key].t = "boolean" /\ ~body[key].b

\* !v || typeof v !== 'string' || v.trim() === ''
NoText(body, key) ==
    \/ Not(body, key)
    \/ body[key].t # "string"
    \/ trim(body[key].s) = <<>>

\* !price || isNaN(parseFloat(price))
NoPrice(body) == Not(body, "price") \/ parseFloat(body, "price").nan

\* The validation of the handler: the message of the first check that fails,
\* "" when none does.
Validation_CategoryFirst(body) ==
    IF NoText(body, "category") THEN "Product category is required"
    ELSE IF NoText(body, "name") THEN "Product name is required"
    ELSE IF NoText(body, "description") THEN "Product description is required"
    ELSE IF NoPrice(body) THEN "Valid product price is required"
    ELSE ""

Validation(body) ==
    IF NoText(body, "name") THEN "Product name is required"
    ELSE IF NoText(body, "description") THEN "Product description is required"
    ELSE IF NoPrice(body) THEN "Valid product price is required"
    ELSE IF NoText(body, "category") THEN "Product category is required"
    ELSE ""

ProductData(body, imageUrl) ==
    [name        |-> trim(body.name.s),
     description |-> trim(body.description.s),
     price       |-> parseFloat(body, "price"),
     category    |-> trim(body.category.s),
     imageUrl    |-> imageUrl]

RespondProduct(op, req, status, body) ==
    resp' = [op |-> op, req |-> req, status |-> status, body |-> body,
             by |-> "handler", keys |-> JsonKeys(op, status),
             again |-> IF resp.op = op /\ resp.req = req THEN resp.status ELSE 0]

\* JSON.stringify of a number: NaN and Infinity are written null.
JsonNumber(x) == IF x.nan \/ x.inf THEN JsNull ELSE Number(x.n)

\* res.json of a product document.
ToJson(product) == [product EXCEPT !.price = JsonNumber(@)]

\* The handler after upload.single('image') has called next(): req.file.path
\* is imageUrl, "" without a file.  product.save() stores the product or
\* fails, and the catch answers its failure with 500.
ProductHandler(req, imageUrl) ==
    IF Validation(req.body) # ""
    THEN /\ RespondProduct("createProduct", req, 400, [message |-> Validation(req.body)])
         /\ UNCHANGED <<products, nextId, log>>
    ELSE LET savedProduct ==
                 Stored(ProductData(req.body, imageUrl), ObjectId(nextId), now)
         IN  \/ /\ products' = Append(products, savedProduct)
                /\ nextId' = nextId + 1
                /\ log' = [log EXCEPT !.created = @ \cup {savedProduct._id}]
                /\ RespondProduct("createProduct", req, 201,
                                  [message |-> "Product uploaded successfully",
                                   product |-> ToJson(savedProduct)])
             \/ /\ RespondProduct("createProduct", req, 500,
                                  [message |-> "Failed to upload product"])
                /\ UNCHANGED <<products, nextId, log>>

\* An error of upload.single that is swallowed: the handler runs without a file.
InternalServerError_ThenHandler(req) ==
    /\ ProductHandler(req, <<>>)
    /\ UNCHANGED images

\* The error-handling middleware, which an error of upload.single is passed to.
InternalServerError(req) ==
    /\ resp' = [op |-> "createProduct", req |-> req, status |-> 500,
                body |-> [message |-> "Internal server error"],
                by |-> "errorMiddleware", keys |-> {"success", "message", "error"},
                again |-> IF resp.op = "createProduct" /\ resp.req = req
                          THEN resp.status ELSE 0]
    /\ UNCHANGED <<products, images, nextId, log>>

\* POST /api/products: upload.single('image'), then the handler.  A file the
\* filter refuses, a file over the size limit (what was sent of it is
\* removed from the store again), a format the store does not allow and a
\* failure of the store end the request in the error-handling middleware.
CreateProduct(req) ==
    /\ Len(products) < MaxProducts
    /\ nextId <= MaxIds
    /\ "file" \in DOMAIN req => Len(images) < MaxImages
    /\ UNCHANGED <<users, pending, proc, plan, orders, now>>
    /\ IF "file" \notin DOMAIN req
       THEN /\ ProductHandler(req, <<>>)
            /\ UNCHANGED images
       ELSE IF \/ ~FileFilter(req.file)
               \/ req.file.size > FileSizeLimit
               \/ req.file.format \notin AllowedFormats
            THEN InternalServerError(req)
            ELSE \/ InternalServerError(req)
                 \/ /\ images' = Append(images, Url(Len(images) + 1))
                    /\ ProductHandler(req, Url(Len(images) + 1))

\* Product.find().sort({ createdAt: -1 }): the documents by descending
\* createdAt; documents of the same createdAt come in any order.
Sort_Natural(coll) == {coll}

Sort(coll) ==
    LET n == Len(coll)
        perms == {f \in [1..n -> 1..n] : \A i, j \in 1..n : i # j => f[i] # f[j]}
    IN  {[i \in 1..n |-> coll[f[i]]] : f \in
            {g \in perms : \A i \in 1..n : \A j \in i..n :
                               coll[g[i]].createdAt >= coll[g[j]].createdAt}}

\* GET /api/products
ListProducts ==
    /\ \E list \in Sort(products) :
           RespondProduct("listProducts", NoReq, 200,
                          [i \in 1..Len(list) |-> ToJson(list[i])])
    /\ UNCHANGED <<users, pending, proc, plan, orders, products, images, now, nextId, log>>

\* coll without its i-th document.
Remove(coll, i) == SubSeq(coll, 1, i - 1) \o SubSeq(coll, i + 1, Len(coll))

\* DELETE /api/products/:id: an id that does not cast to an ObjectId makes
\* findByIdAndDelete throw, which the handler answers with 500.
DeleteProduct(id) ==
    /\ UNCHANGED <<users, pending, proc, plan, orders, images, now, nextId>>
    /\ IF ~isValid(id)
       THEN /\ RespondProduct("deleteProduct", id, 500, [message |-> "Failed to delete product"])
            /\ UNCHANGED <<products, log>>
       ELSE LET i == FindById(products, id) IN
            IF i = 0
            THEN /\ RespondProduct("deleteProduct", id, 404, [message |-> "Product not found"])
                 /\ UNCHANGED <<products, log>>
            ELSE /\ products' = Remove(products, i)
                 /\ log' = [log EXCEPT !.deleted = @ \cup {products[i]._id}]
                 /\ RespondProduct("deleteProduct", id, 200,
                                   [message |-> "Product deleted successfully"])

\* The product of a complete request, and requests that differ from it.
BaseProduct ==
    [name |-> String(<<"P">>), description |-> String(<<"D">>),
     price |-> String(<<"5">>), category |-> String(<<"C">>)]

ProductBodies ==
    {BaseProduct}
    \cup {Without(BaseProduct, k) : k \in DOMAIN BaseProduct}
    \cup {[BaseProduct EXCEPT !.name = Number(5)],
          [BaseProduct EXCEPT !.category = String(<<" ">>)]}
    \cup {[BaseProduct EXCEPT !.name = String(<<" ", "P", "\t">>)],
          [BaseProduct EXCEPT !.price = String(<<>>)],
          [BaseProduct EXCEPT !.price = Number(0)],
          [BaseProduct EXCEPT !.price = String(<<"a", "b", "c">>)],
          [BaseProduct EXCEPT !.price = String(<<"5", "x">>)],
          [BaseProduct EXCEPT !.price = String(<<"I", "n", "f", "i", "n", "i", "t", "y">>)],
          [BaseProduct EXCEPT !.name = String(<<>>), !.price = String(<<"a", "b", "c">>)],
          [BaseProduct EXCEPT !.description = JsNull, !.category = String(<<>>)],
          Without(Without(BaseProduct, "price"), "category")}

Png == [mimetype |-> <<"image", "/", "png">>, format |-> "png", size |-> 1]

Files ==
    {Png,
     [Png EXCEPT !.size = 6],
     [mimetype |-> <<"image", "/", "gif">>, format |-> "gif", size |-> 1],
     [mimetype |-> <<"text", "/", "plain">>, format |-> "txt", size |-> 1]}

ProductRequests ==
    {[body |-> b] : b \in ProductBodies}
    \cup {[body |-> BaseProduct, file |-> f] : f \in Files}
    \cup {[body |-> Without(BaseProduct, "name"), file |-> Png]}

ProductIds == {<<"a", "1">>, <<"A", "2">>, <<"a", "3">>, <<"b", "9">>, <<"z", "z">>}

(***************************************************************************)
(* GET /api/orders                                                         *)
(***************************************************************************)

\* Order.find(filter): {} matches every order; customer.email is a String
\* path without setters, so { 'customer.email': email } is compared as given.
Find_All(coll, filter) == coll

Find(coll, filter) ==
    IF "email" \in DOMAIN filter
    THEN SelectSeq(coll, LAMBDA o : o.customer.email = filter.email)
    ELSE coll

\* GET /api/orders: query is req.query; if (email) takes the filter only for
\* an email that is there and not empty.
ListOrders(query) ==
    LET email  == Get(query, "email")
        filter == IF email \notin {"undefined", ""} THEN [email |-> email] ELSE <<>>
    IN  /\ \E list \in Sort(Find(orders, filter)) :
               RespondOrder("listOrders", query, 200, list)
        /\ UNCHANGED <<users, pending, proc, plan, orders, products, images, now, nextId, log>>

\* Orders of customers whose emails differ in case and in white space, and
\* the queries for them.
ListEmails == {"a@b.com", "A@b.com", "a@b.com "}

ListOrderBodies == {[BaseOrder EXCEPT !.customer.email = e] : e \in ListEmails}

ListQueries == {<<>>, [email |-> ""], [email |-> "c@d.com"]} \cup {[email |-> e] : e \in ListEmails}

\* The orders that the requests to PATCH /api/orders/:id work on.
FewOrderBodies ==
    {BaseOrder @@ [fulfilled |-> Boolean(TRUE)], Without(BaseOrder, "items")}

(***************************************************************************)
(* The route tables and the 404 handler of the three servers: the          *)
(* production server (src/routes/product.js from line 646), the second     *)
(* server (src/unnamed/part_001 from line 646) and the local server        *)
(* (src/routes/product.js up to line 645).  A path is the sequence of its  *)
(* segments.                                                               *)
(***************************************************************************)

Servers == {"production", "second", "local"}

R(method, path) == [method |-> method, path |-> path]

\* The routes that app.get, app.post, app.patch, app.delete and app.options
\* register.
CommonRoutes ==
    {R("GET", <<"api", "test">>), R("GET", <<"api", "health">>),
     R("POST", <<"api", "users", "create-basic">>),
     R("GET", <<"api", "users", ":email">>),
     R("PATCH", <<"api", "users", ":email">>),
     R("POST", <<"api", "users", "register">>),
     R("GET", <<"api", "users">>),
     R("POST", <<"api", "products">>), R("GET", <<"api", "products">>),
     R("DELETE", <<"api", "products", ":id">>),
     R("POST", <<"api", "orders">>), R("GET", <<"api", "orders">>)}

Routes(server) ==
    CASE server = "production" ->
             CommonRoutes \cup {R("GET", <<>>), R("GET", <<"api", "debug", "users">>),
                                R("PATCH", <<"api", "orders", ":id">>)}
      [] server = "second" ->
             CommonRoutes \cup {R("GET", <<>>), R("GET", <<"api", "debug", "users">>)}
      [] OTHER ->
             CommonRoutes \cup {R("OPTIONS", <<"*">>), R("GET", <<"api", "reset-users">>),
                                R("GET", <<"api", "users", "recent", "list">>)}

\* availableRoutes of the 404 handler.
AvailableRoutes(server) ==
    CASE server = "production" ->
             {R("GET", <<>>), R("GET", <<"api", "test">>), R("GET", <<"api", "health">>),
              R("POST", <<"api", "users", "create-basic">>),
              R("GET", <<"api", "users", ":email">>),
              R("PATCH", <<"api", "users", ":email">>),
              R("POST", <<"api", "users", "register">>),
              R("GET", <<"api", "users">>), R("GET", <<"api", "debug", "users">>),
              R("POST", <<"api", "products">>), R("GET", <<"api", "products">>),
              R("DELETE", <<"api", "products", ":id">>),
              R("POST", <<"api", "orders">>), R("GET", <<"api", "orders">>),
              R("PATCH", <<"api", "orders", ":id">>)}
      [] server = "second" ->
             {R("GET", <<>>), R("GET", <<"api", "test">>), R("GET", <<"api", "health">>),
              R("POST", <<"api", "users", "create-basic">>),
              R("GET", <<"api", "users", ":email">>),
              R("PATCH", <<"api", "users", ":email">>),
              R("POST", <<"api", "users", "register">>),
              R("GET", <<"api", "debug", "users">>),
              R("POST", <<"api", "products">>), R("GET", <<"api", "products">>),
              R("DELETE", <<"api", "products", ":id">>)}
      [] OTHER ->
             {R("GET", <<"api", "test">>), R("GET", <<"api", "health">>),
              R("GET", <<"api", "users", ":email">>),
              R("POST", <<"api", "users", "create-basic">>),
              R("POST", <<"api", "users", "register">>)}

\* The segments that stand for a route parameter.
Params == {":email", ":id"}

\* The route takes the request: the method is the route's, and the path
\* has the route's segments, any segment in the place of a parameter; the
\* path '*' takes every path.
MatchesRoute(route, method, path) ==
    /\ route.method = method
    /\ \/ route.path = <<"*">>
       \/ /\ Len(route.path) = Len(path)
          /\ \A i \in 1..Len(path) : route.path[i] \in Params \/ route.path[i] = path[i]

\* The CORS middleware, which is ahead of the routes: it ends an OPTIONS
\* request, with 200 in the local server and 204 in the other two.
Preflight(server, path) ==
    /\ resp' = [op |-> "preflight",
                req |-> [server |-> server, method |-> "OPTIONS", path |-> path],
                status |-> IF server = "local" THEN 200 ELSE 204,
                body |-> <<>>, by |-> "cors", keys |-> {},
                again |-> 0]
    /\ UNCHANGED <<users, pending, shop>>

\* The 404 handler, which a request that no route took comes to.
NotFound(server, method, path) ==
    /\ method # "OPTIONS"
    /\ \A route \in Routes(server) : ~MatchesRoute(route, method, path)
    /\ resp' = [op |-> "notFound",
                req |-> [server |-> server, method |-> method, path |-> path],
                status |-> 404,
                body |-> [availableRoutes |-> AvailableRoutes(server)],
                by |-> "notFoundHandler",
                keys |-> {"success", "message", "availableRoutes"},
                again |-> 0]
    /\ UNCHANGED <<users, pending, shop>>

Methods == {"GET", "POST", "PUT", "PATCH", "DELETE"}

Paths ==
    {<<>>, <<"api">>, <<"api", "test">>, <<"api", "nope">>, <<"api", "users">>,
     <<"api", "users", "x">>, <<"api", "users", "register">>,
     <<"api", "users", "recent", "list">>, <<"api", "debug", "users">>,
     <<"api", "reset-users">>, <<"api", "products">>, <<"api", "products", "a1">>,
     <<"api", "orders">>, <<"api", "orders", "a1">>, <<"api", "orders", "a1", "x">>}

(***************************************************************************)
(* Startup: mongoose.connect(mongoUri).then(...).catch(...), while          *)
(* app.listen has the server take requests already.                        *)
(***************************************************************************)

\* The promise of mongoose.connect resolves.
Connected ==
    /\ proc = "connecting"
    /\ proc' = "connected"
    /\ UNCHANGED <<users, pending, resp, orders, products, images, now, nextId, log, plan>>

\* The promise of mongoose.connect rejects: its catch callback is queued.
ConnectionFailed ==
    /\ proc = "connecting"
    /\ proc' = "failed"
    /\ UNCHANGED <<users, pending, resp, orders, products, images, now, nextId, log, plan>>

\* The catch callback: console.error, then process.exit(1).
Exit_LogOnly ==
    /\ proc = "failed"
    /\ proc' = "disconnected"
    /\ UNCHANGED <<users, pending, resp, orders, products, images, now, nextId, log, plan>>

Exit ==
    /\ proc = "failed"
    /\ proc' = "exit(1)"
    /\ UNCHANGED <<users, pending, resp, orders, products, images, now, nextId, log, plan>>

(***************************************************************************)
(* A register and a patch request for one user that exists                 *)
(***************************************************************************)

\* The user before the two requests: a name and a nickname, each empty or not.
RaceUsers ==
    {NewUser([email |-> <<"a">>, name |-> n, nickname |-> k]) :
        n \in {<<>>, <<"N">>}, k \in {<<>>, <<"K">>}}

RaceRegisterBodies == ConcRegisterBodies

RacePatchBodies ==
    {[nickname |-> <<"N">>], [nickname |-> <<>>], [name |-> <<"N">>],
     [name |-> <<"N">>, phone |-> <<"2">>]}

(***************************************************************************)
(* Specifications                                                          *)
(***************************************************************************)

\* The server once mongoose.connect has resolved, its collections empty.
Init ==
    /\ users = <<>>
    /\ orders = <<>>
    /\ products = <<>>
    /\ images = <<>>
    /\ now = 0
    /\ nextId = 1
    /\ log = [created |-> {}, deleted |-> {}]
    /\ pending = {}
    /\ resp = [op |-> "none", req |-> NoReq, status |-> 0, user |-> NoUser, again |-> 0]
    /\ proc = "connected"
    /\ plan = NoPlan

\* One request at a time: a request is answered before the next arrives.
Next ==
    \/ pending = {} /\ \E body \in CreateBasicBodies : CreateBasicFind(body)
    \/ \E p \in pending : CreateBasicSave(p)
    \/ pending = {} /\ \E body \in RegisterBodies : RegisterFind(body)
    \/ \E p \in pending : RegisterSave(p)
    \/ pending = {} /\ \E email \in PatchParams, body \in PatchBodies : PatchFind(email, body)
    \/ \E p \in pending : PatchSave(p)
    \/ pending = {} /\ \E email \in GetParams : GetUser(email)

Spec == Init /\ [][Next]_vars

\* Requests overlap: up to MaxPending of them are between findOne and save.
NextConc ==
    \/ Cardinality(pending) < MaxPending /\
          \E body \in ConcCreateBasicBodies : CreateBasicFind(body)
    \/ \E p \in pending : CreateBasicSave(p)
    \/ Cardinality(pending) < MaxPending /\
          \E body \in ConcRegisterBodies : RegisterFind(body)
    \/ \E p \in pending : RegisterSave(p)
    \/ Cardinality(pending) < MaxPending /\
          \E email \in ConcParams, body \in ConcPatchBodies : PatchFind(email, body)
    \/ \E p \in pending : PatchSave(p)
    \/ Cardinality(pending) < MaxPending /\
          \E email \in ConcParams : GetUser(email)

SpecConc == Init /\ [][NextConc]_vars

\* The order handlers.
NextOrders ==
    \/ \E order \in OrderBodies : CreateOrder(order)

SpecOrders == Init /\ [][NextOrders]_vars

\* Order creation and the status update, as the clock moves on.
NextFulfil ==
    \/ \E order \in FewOrderBodies : CreateOrder(order)
    \/ \E id \in OrderIds, body \in PatchOrderBodies : PatchOrder(id, body)
    \/ Tick

SpecFulfil == Init /\ [][NextFulfil]_vars

\* Every route that writes, with few requests each.
ShopOrderBodies == {BaseOrder}

ShopProductRequests == {[body |-> BaseProduct]}

ShopIds == {<<"a", "1">>, <<"a", "2">>}

ShopPatchBodies == {[fulfilled |-> Boolean(TRUE)]}

ShopUserBodies == {[email |-> <<"A">>, nickname |-> <<"N">>]}

NextShop ==
    \/ \E order \in ShopOrderBodies : CreateOrder(order)
    \/ \E id \in ShopIds, body \in ShopPatchBodies : PatchOrder(id, body)
    \/ \E req \in ShopProductRequests : CreateProduct(req)
    \/ \E id \in ShopIds : DeleteProduct(id)
    \/ pending = {} /\ \E body \in ShopUserBodies : CreateBasicFind(body)
    \/ \E p \in pending : CreateBasicSave(p)
    \/ Tick

SpecShop == Init /\ [][NextShop]_vars

\* The product routes, as the clock moves on.
NextProducts ==
    \/ \E req \in ProductRequests : CreateProduct(req)
    \/ \E id \in ProductIds : DeleteProduct(id)
    \/ ListProducts
    \/ Tick

SpecProducts == Init /\ [][NextProducts]_vars

\* The orders of several customers and their listing, as the clock moves on.
NextList ==
    \/ \E order \in ListOrderBodies : CreateOrder(order)
    \/ \E query \in ListQueries : ListOrders(query)
    \/ Tick

SpecList == Init /\ [][NextList]_vars

\* The requests that no route handler answers.
NextRoutes ==
    \/ \E server \in Servers, path \in Paths : Preflight(server, path)
    \/ \E server \in Servers, method \in Methods, path \in Paths :
           NotFound(server, method, path)

SpecRoutes == Init /\ [][NextRoutes]_vars

\* The process from its start.
Boot ==
    /\ users = <<>>
    /\ orders = <<>>
    /\ products = <<>>
    /\ images = <<>>
    /\ now = 0
    /\ nextId = 1
    /\ log = [created |-> {}, deleted |-> {}]
    /\ pending = {}
    /\ resp = [op |-> "none", req |-> NoReq, status |-> 0, user |-> NoUser, again |-> 0]
    /\ proc = "connecting"
    /\ plan = NoPlan

\* Startup and the requests.  The event loop runs a handler while the
\* process lives and no callback of a settled promise is queued ahead of
\* it.  Until the connection is there Mongoose buffers the operations on
\* the models, so a handler is past its first operation on a model only
\* once the process is connected; what a handler answers before that
\* operation it answers while the process is connecting as well.
NextStartup ==
    \/ Connected
    \/ ConnectionFailed
    \/ Exit
    \/ proc = "connected" /\ \E order \in FewOrderBodies : CreateOrder(order)
    \/ proc = "connecting" /\
          \E order \in {o \in FewOrderBodies : InvalidOrder(o) \/ NoCustomerEmail(o)} :
              CreateOrder(order)
    \/ proc = "connected" /\ \E id \in ShopIds, body \in ShopPatchBodies : PatchOrder(id, body)
    \/ proc = "connecting" /\
          \E id \in {i \in OrderIds : ~isValid(i)}, body \in ShopPatchBodies :
              PatchOrder(id, body)
    \/ proc = "connected" /\ \E req \in ShopProductRequests : CreateProduct(req)
    \/ proc = "connected" /\ pending = {} /\ \E body \in ShopUserBodies : CreateBasicFind(body)
    \/ proc = "connected" /\ \E p \in pending : CreateBasicSave(p)

\* The callbacks of a settled promise run: the queue of them is emptied
\* before the event loop takes up anything else.
SpecStartup == Boot /\ [][NextStartup]_vars /\ WF_vars(Exit)

\* A user is stored, and a register and a patch request for it are planned.
InitRace ==
    /\ \E user \in RaceUsers, register \in RaceRegisterBodies, patch \in RacePatchBodies :
           /\ users = <<user>>
           /\ plan = [user |-> user, register |-> register, patch |-> patch, sent |-> {}]
    /\ orders = <<>>
    /\ products = <<>>
    /\ images = <<>>
    /\ now = 0
    /\ nextId = 1
    /\ log = [created |-> {}, deleted |-> {}]
    /\ pending = {}
    /\ resp = [op |-> "none", req |-> NoReq, status |-> 0, user |-> NoUser, again |-> 0]
    /\ proc = "connected"

\* Each of the two requests is sent once; their steps interleave freely.
NextRace ==
    \/ "register" \notin plan.sent /\ RegisterFind(plan.register)
    \/ \E p \in pending : RegisterSave(p)
    \/ "patch" \notin plan.sent /\ PatchFind(<<"A">>, plan.patch)
    \/ \E p \in pending : PatchSave(p)

SpecRace == InitRace /\ [][NextRace]_vars

(***************************************************************************)
(* Properties                                                              *)
(***************************************************************************)

\* A step that answers a request of handler op (a step that parks a request
\* on pending answers none).
Answers(op) == pending' \subseteq pending /\ resp'.op = op

\* The stored email e is the one the request's email names: equal up to
\* letter case and surrounding white space.
Matches(e, given) == e = toLowerCase(trim(given))

Matching(coll, given) == {i \in 1..Len(coll) : Matches(coll[i].email, given)}

\* C1: a create-basic call that repeats, with the same email and nickname, the
\* call answered 201 just before it is answered 200 with the record the first
\* call returned, changes no stored user and leaves one record for the email.
C1_CreateBasicTwice ==
    [][(/\ resp.op = "createBasic"
        /\ resp.status = 201
        /\ Answers("createBasic")
        /\ resp'.req = resp.req)
       => (/\ resp'.status = 200
           /\ resp'.user = resp.user
           /\ users' = users
           /\ Cardinality(Matching(users', resp.req.body.email)) = 1)]_vars

\* The second of two create-basic calls with email " A " has been answered
\* with the user the first one created.
C1_Witness ==
    /\ resp.op = "createBasic"
    /\ resp.again = 201
    /\ resp.status = 200
    /\ resp.req.body.email = <<" ", "A", " ">>
    /\ resp.user.email = <<"a">>

CompleteRegister(body) ==
    ~(Falsy(body, "name") \/ Falsy(body, "email") \/ Falsy(body, "phone"))

\* C2: a register call for an email that a stored user has sets that user's
\* name and phone to the values of the call, keeps a nickname that was not
\* empty, keeps email, addresses and preferences, keeps every other user and
\* adds no record.
C2_RegisterExisting ==
    [][(/\ Answers("register")
        /\ CompleteRegister(resp'.req.body)
        /\ Matching(users, resp'.req.body.email) # {})
       => LET body == resp'.req.body
              i    == CHOOSE i \in Matching(users, body.email) : TRUE
          IN  /\ Len(users') = Len(users)
              /\ users'[i].name = body.name
              /\ users'[i].phone = body.phone
              /\ users[i].nickname # <<>> => users'[i].nickname = users[i].nickname
              /\ \A f \in {"email", "addresses", "preferences"} :
                     users'[i][f] = users[i][f]
              /\ \A j \in 1..Len(users) : j # i => users'[j] = users[j]]_vars

\* A register call has renamed a user that create-basic made and patch gave
\* addresses: nickname and addresses are still those.
C2_Witness ==
    /\ resp.op = "register"
    /\ resp.status = 200
    /\ resp.req.body.name = <<"J", " ", "D">>
    /\ \E i \in 1..Len(users) :
          /\ users[i] = resp.user
          /\ users[i].name = <<"J", " ", "D">>
          /\ users[i].nickname = <<"N">>
          /\ users[i].phone = <<"1">>
          /\ users[i].addresses = SomeAddresses

\* The first white-space-delimited token of s.
RECURSIVE TakeWord(_)
TakeWord(s) ==
    IF s = <<>> \/ IsSpace(Head(s)) THEN <<>> ELSE <<Head(s)>> \o TakeWord(Tail(s))

FirstToken(s) == TakeWord(TrimStart(s))

\* C3: register answers 201 when no user has the email and 200 when one has,
\* and a nickname it sets (for a new user, or for a user whose nickname was
\* empty) is the first white-space-delimited token of the name.
C3_RegisterNickname ==
    [][(/\ Answers("register")
        /\ CompleteRegister(resp'.req.body))
       => LET body  == resp'.req.body
              found == Matching(users, body.email)
          IN  /\ resp'.status = IF found = {} THEN 201 ELSE 200
              /\ (found = {} \/ \E i \in found : users[i].nickname = <<>>)
                    => \E j \in Matching(users', body.email) :
                           users'[j].nickname = FirstToken(body.name)]_vars

\* C4: every stored email is lowercase and trimmed, and no two stored users
\* have the same email.
C4_EmailsNormalizedUnique ==
    \A i \in 1..Len(users) :
        /\ users[i].email = toLowerCase(users[i].email)
        /\ users[i].email = trim(users[i].email)
        /\ \A j \in 1..Len(users) : j # i => users[j].email # users[i].email

\* Two users are stored and a create-basic call for " A ", which found no
\* user when it looked, has had its insert refused.
C4_Witness ==
    /\ Len(users) = 2
    /\ resp.op = "createBasic"
    /\ resp.status = 500
    /\ resp.req.body.email = <<" ", "A", " ">>
    /\ \E i \in 1..Len(users) : users[i].email = <<"a">>

C6_GetUser ==
    resp.op = "getUser"
    => /\ \A i \in 1..Len(users) :
              users[i].email = toLowerCase(resp.req.email)
                 => resp.status = 200 /\ resp.user = users[i]
       /\ Matching(users, resp.req.email) = {} => resp.status = 404

\* GET with "A" has returned user "a", the second of two stored users.
C6_Witness ==
    /\ resp.op = "getUser"
    /\ resp.status = 200
    /\ resp.req.email = <<"A">>
    /\ Len(users) = 2
    /\ users[2].email = <<"a">>
    /\ resp.user = users[2]

\* C7: create-basic answers 400 and stores nothing when email or nickname is
\* missing; otherwise, when no user has the email, it answers 201 and adds
\* one record whose email is the lowercased trimmed email and whose nickname
\* and name are the trimmed nickname.
C7_CreateBasic ==
    [][Answers("createBasic")
       => LET body == resp'.req.body IN
          IF Falsy(body, "email") \/ Falsy(body, "nickname")
          THEN resp'.status = 400 /\ users' = users
          ELSE Matching(users, body.email) = {}
                  => /\ resp'.status = 201
                     /\ Len(users') = Len(users) + 1
                     /\ SubSeq(users', 1, Len(users)) = users
                     /\ users'[Len(users')].email = toLowerCase(trim(body.email))
                     /\ users'[Len(users')].nickname = trim(body.nickname)
                     /\ users'[Len(users')].name = trim(body.nickname)]_vars

\* C8: an order whose items is missing or empty, whose customer is missing or
\* whose customer.email is absent is answered 400 and no order is stored.
C8_OrderRejected ==
    [][(/\ resp'.op = "createOrder"
        /\ LET order == resp'.req IN
           \/ "items" \notin DOMAIN order
           \/ order.items = <<>>
           \/ "customer" \notin DOMAIN order
           \/ "email" \notin DOMAIN order.customer)
       => resp'.status = 400 /\ orders' = orders]_vars

\* An order with no items, its other fields those of an order that is
\* accepted, has been answered 400 after an order was stored.
C8_Witness ==
    /\ resp.op = "createOrder"
    /\ resp.status = 400
    /\ resp.req = [BaseOrder EXCEPT !.items = <<>>] @@ [subtotal |-> Number(8)]
    /\ Len(orders) = 1

\* C9: an order that lacks customer.name, customer.address, customer.phone,
\* total or paymentMethod is answered 400 and no order is stored.
C9_OrderRequiredFields ==
    [][(/\ resp'.op = "createOrder"
        /\ LET order == resp'.req IN
           \/ "total" \notin DOMAIN order
           \/ "paymentMethod" \notin DOMAIN order
           \/ /\ "customer" \in DOMAIN order
              /\ \E k \in {"name", "address", "phone"} : k \notin DOMAIN order.customer)
       => resp'.status = 400 /\ orders' = orders]_vars

\* body.key is a number or a string that starts with one.
Numeric(body, key) == ~parseFloat(body, key).nan

\* C10: the stored subtotal of an accepted order is the request's subtotal
\* when that is numeric, zero included, and the total otherwise; the stored
\* deliveryFee is the request's when that is numeric and 0 otherwise.
C10_SubtotalAndFee ==
    (resp.op = "createOrder" /\ resp.status = 201)
    => LET order  == resp.req
           stored == orders[Len(orders)]
       IN  /\ stored = resp.order
           /\ stored.subtotal = IF Numeric(order, "subtotal")
                                THEN parseFloat(order, "subtotal").n
                                ELSE stored.total
           /\ stored.deliveryFee = IF Numeric(order, "deliveryFee")
                                   THEN parseFloat(order, "deliveryFee").n
                                   ELSE 0

Handles(op) == resp'.op = op /\ now' = now

\* The documents that id resolves to.
Resolves(coll, id) == {i \in 1..Len(coll) : coll[i]._id = toLowerCase(id)}

\* The field is missing, is no string, or is empty once trimmed.
TextFails(body, key) ==
    \/ key \notin DOMAIN body
    \/ body[key].t # "string"
    \/ trim(body[key].s) = <<>>

\* The message of the first of name, description, price, category that
\* fails, "" when none fails.
FirstFailing(body) ==
    CASE TextFails(body, "name") -> "Product name is required"
      [] ~TextFails(body, "name") /\ TextFails(body, "description")
            -> "Product description is required"
      [] ~TextFails(body, "name") /\ ~TextFails(body, "description") /\ NoPrice(body)
            -> "Valid product price is required"
      [] /\ ~TextFails(body, "name") /\ ~TextFails(body, "description")
         /\ ~NoPrice(body) /\ TextFails(body, "category")
            -> "Product category is required"
      [] OTHER -> ""

\* The request reached the handler: it has no file, or its file was stored.
Handled(req) == "file" \notin DOMAIN req \/ images' # images

FinitePrice(body) ==
    /\ "price" \in DOMAIN body
    /\ \/ body.price.t = "number"
       \/ /\ body.price.t = "string"
          /\ trim(body.price.s) # <<>>
          /\ \A i \in 1..Len(trim(body.price.s)) : trim(body.price.s)[i] \in Digits

\* C17: a POST /api/products request whose price is missing, is no number,
\* is infinite or is a number followed by other characters is answered 400
\* and no product is persisted.
C17_PriceFinite ==
    [][(/\ Handles("createProduct")
        /\ Handled(resp'.req)
        /\ ~FinitePrice(resp'.req.body))
       => (resp'.status = 400 /\ products' = products)]_vars

\* C18: a POST /api/products request whose file has a MIME type that is not
\* image/..., or is larger than 5 MB, is answered 400 and no product is
\* persisted.
C18_UploadRejected ==
    [][(/\ Handles("createProduct")
        /\ "file" \in DOMAIN resp'.req
        /\ \/ resp'.req.file.mimetype[1] # "image"
           \/ resp'.req.file.size > 5)
       => (resp'.status = 400 /\ products' = products)]_vars

\* C19: DELETE /api/products/:id answers 404 and leaves the collection as it
\* is when the id resolves to no product, well-formed or not, and for an id
\* that resolves to a product removes that product only and answers 200.
C19_DeleteProduct ==
    [][Handles("deleteProduct")
       => IF Resolves(products, resp'.req) = {}
          THEN resp'.status = 404 /\ products' = products
          ELSE /\ resp'.status = 200
               /\ \E i \in Resolves(products, resp'.req) :
                      products' = Remove(products, i)]_vars

\* C20: GET /api/products returns the products that were created and not
\* deleted since, as they are stored, each once, by createdAt from the
\* newest to the oldest.
C20_ProductList ==
    resp.op = "listProducts"
    => LET list == resp.body
           n    == Len(list)
       IN  /\ {list[i]._id : i \in 1..n} = log.created \ log.deleted
           /\ n = Cardinality(log.created \ log.deleted)
           /\ \A i \in 1..n : \E j \in 1..Len(products) : ToJson(products[j]) = list[i]
           /\ \A i \in 1..n : \A j \in i..n : list[i].createdAt >= list[j].createdAt

\* After a deletion the list has two products, the one created later first.
C20_Witness ==
    /\ resp.op = "listProducts"
    /\ log.deleted # {}
    /\ Len(resp.body) = 2
    /\ resp.body[1].createdAt > resp.body[2].createdAt
    /\ resp.body[1] = ToJson(products[2])

\* C12: an order is stored with fulfilled = false whatever the create
\* request carries, and the fulfilled of a stored order changes only in a
\* step of PATCH /api/orders/:id with that order's id.
C12_FulfilledOnlyByPatch ==
    [][/\ Len(orders') >= Len(orders)
       /\ Len(orders') > Len(orders) => orders'[Len(orders')].fulfilled = Boolean(FALSE)
       /\ \A i \in 1..Len(orders) :
              orders'[i].fulfilled # orders[i].fulfilled
                 => /\ Handles("patchOrder")
                    /\ toLowerCase(resp'.req.id) = orders[i]._id]_vars

\* An order whose request carried fulfilled = true has been stored with
\* false, next to an order that a status update has set to true.
C12_Witness ==
    /\ resp.op = "createOrder"
    /\ resp.status = 201
    /\ resp.req.fulfilled = Boolean(TRUE)
    /\ Len(orders) = 2
    /\ orders[2].fulfilled = Boolean(FALSE)
    /\ orders[1].fulfilled = Boolean(TRUE)

\* The order without the two fields a status update may change.
Frozen(order) == [k \in DOMAIN order \ {"fulfilled", "updatedAt"} |-> order[k]]

\* C13: a stored order is never removed, and no step changes a field of it
\* other than fulfilled and updatedAt.
C13_OrderImmutable ==
    [][/\ Len(orders') >= Len(orders)
       /\ \A i \in 1..Len(orders) : Frozen(orders'[i]) = Frozen(orders[i])]_vars

\* Of two orders the first has been fulfilled at a later time than it was
\* created, a product has been deleted and a user has been stored.
C13_Witness ==
    /\ Len(orders) = 2
    /\ orders[1].fulfilled = Boolean(TRUE)
    /\ orders[1].updatedAt > orders[1].createdAt
    /\ log.deleted # {}
    /\ Len(users) = 1

\* The id is two hexadecimal characters (which stand for the 24 of an
\* ObjectId).
WellFormed(id) ==
    /\ Len(id) = 2
    /\ \A i \in 1..Len(id) : id[i] \in Digits \cup {"a", "b", "A", "B"}

\* C14: PATCH /api/orders/:id answers 400 and changes nothing for an id that
\* is not well-formed; with a boolean fulfilled it answers 404 and changes
\* nothing for a well-formed id that no order has, and otherwise 200 with
\* the order of that id, whose stored fulfilled is now the boolean.
C14_PatchOrder ==
    [][Handles("patchOrder")
       => LET id    == resp'.req.id
              body  == resp'.req.body
              found == Resolves(orders, id)
          IN  /\ ~WellFormed(id) => resp'.status = 400 /\ orders' = orders
              /\ (/\ WellFormed(id)
                  /\ "fulfilled" \in DOMAIN body
                  /\ body.fulfilled.t = "boolean")
                     => IF found = {}
                        THEN resp'.status = 404 /\ orders' = orders
                        ELSE /\ resp'.status = 200
                             /\ resp'.order.fulfilled = body.fulfilled
                             /\ resp'.order._id = toLowerCase(id)
                             /\ \A i \in found : orders'[i] = resp'.order]_vars

\* PATCH with the id of the first order, written in capitals, and fulfilled =
\* true has been answered 200, and the order is stored fulfilled.
C14_Witness ==
    /\ resp.op = "patchOrder"
    /\ resp.status = 200
    /\ resp.req = [id |-> <<"A", "1">>, body |-> [fulfilled |-> Boolean(TRUE)]]
    /\ orders[1]._id = <<"a", "1">>
    /\ orders[1].fulfilled = Boolean(TRUE)

\* A PATCH that repeats, with a boolean fulfilled, the PATCH answered 200
\* just before it.
RepeatsPatch ==
    /\ resp.op = "patchOrder"
    /\ resp.status = 200
    /\ Handles("patchOrder")
    /\ resp'.req = resp.req
    /\ "fulfilled" \in DOMAIN resp.req.body
    /\ resp.req.body.fulfilled.t = "boolean"

\* C15 as stated: the repeated PATCH is answered 200 with the same order and
\* leaves the stored orders as the first PATCH left them.
C15_PatchTwiceSame ==
    [][RepeatsPatch
       => (/\ resp'.status = 200
           /\ resp'.order = resp.order
           /\ orders' = orders)]_vars

SansUpdatedAt(order) == [order EXCEPT !.updatedAt = 0]

\* C15, amended: the repeated PATCH is answered 200 with the same order and
\* leaves the stored orders as the first PATCH left them, but for the
\* updatedAt of that order, which is the time of the repeated PATCH.
C15_PatchTwiceSameButUpdatedAt ==
    [][RepeatsPatch
       => (/\ resp'.status = 200
           /\ SansUpdatedAt(resp'.order) = SansUpdatedAt(resp.order)
           /\ resp'.order.updatedAt = now
           /\ Len(orders') = Len(orders)
           /\ \A i \in 1..Len(orders) :
                  IF orders[i]._id = resp.order._id
                  THEN orders'[i] = resp'.order
                  ELSE orders'[i] = orders[i])]_vars

\* PATCH with fulfilled = false has been answered 200 a second time, at a
\* later time than the order was created.
C15_Witness ==
    /\ resp.op = "patchOrder"
    /\ resp.again = 200
    /\ resp.status = 200
    /\ resp.req.body = [fulfilled |-> Boolean(FALSE)]
    /\ resp.order.fulfilled = Boolean(FALSE)
    /\ resp.order.updatedAt > resp.order.createdAt

\* The orders that GET /api/orders answers with, and what the claim takes
\* them to be for a query.
Listed(wanted) ==
    LET list == resp.order IN
    /\ {list[i] : i \in 1..Len(list)} = wanted
    /\ Len(list) = Cardinality(wanted)
    /\ \A i \in 1..Len(list) : \A j \in i..Len(list) :
           list[i].createdAt >= list[j].createdAt

OfCustomer(email) == {orders[i] : i \in {j \in 1..Len(orders) : orders[j].customer.email = email}}

AllOrders == {orders[i] : i \in 1..Len(orders)}

\* C21 as stated: GET /api/orders with an email parameter answers with
\* exactly the stored orders whose customer.email equals the parameter
\* character for character, without an email parameter with all orders,
\* both newest first.
C21_ListByEmail ==
    resp.op = "listOrders"
    => /\ resp.status = 200
       /\ IF "email" \in DOMAIN resp.req
          THEN Listed(OfCustomer(resp.req.email))
          ELSE Listed(AllOrders)

\* C21 amended: GET /api/orders with an email parameter that is not empty
\* answers with exactly the stored orders whose customer.email equals the
\* parameter character for character; without an email parameter, or with
\* an empty one, it answers with all orders; both newest first.
C21_ListByNonEmptyEmail ==
    resp.op = "listOrders"
    => /\ resp.status = 200
       /\ IF "email" \in DOMAIN resp.req /\ resp.req.email # ""
          THEN Listed(OfCustomer(resp.req.email))
          ELSE Listed(AllOrders)

\* Two orders whose emails differ only in case are stored, and the query
\* for one of the emails is answered with its order alone.
C21_Witness ==
    /\ resp.op = "listOrders"
    /\ resp.req = [email |-> "a@b.com"]
    /\ Len(orders) = 2
    /\ orders[1].customer.email = "A@b.com"
    /\ orders[2].customer.email = "a@b.com"
    /\ resp.order = <<orders[2]>>

\* C22: every answer with an error status, to a user, product or order
\* request, is sent by the route handler and is a JSON object with a
\* success flag and a message; none is sent by the error-handling
\* middleware.
C22_ErrorsFromHandler ==
    resp.status >= 400
    => /\ resp.by = "handler"
       /\ {"success", "message"} \subseteq resp.keys

\* The price v of a request body is the number that the stored price x is.
Denotes(v, x) ==
    \/ v.t = "number" /\ ~x.nan /\ ~x.inf /\ x.n = v.n
    \/ /\ v.t = "string"
       /\ trim(v.s) = <<"I", "n", "f", "i", "n", "i", "t", "y">>
       /\ x.inf
    \/ /\ v.t = "string"
       /\ trim(v.s) # <<>>
       /\ \A i \in 1..Len(trim(v.s)) : trim(v.s)[i] \in Digits
       /\ ~x.nan /\ ~x.inf /\ x.n = ReadDigits(trim(v.s), 0)

\* C24: the price that an accepted POST /api/products stores is the number
\* that the request supplied, and GET /api/products returns the stored
\* price of every product as that number.
C24_PriceRoundTrip ==
    [][/\ (Handles("createProduct") /\ resp'.status = 201)
          => Denotes(resp'.req.body.price, products'[Len(products')].price)
       /\ Handles("listProducts")
          => \A i \in 1..Len(resp'.body) : \E j \in 1..Len(products) :
                 /\ products[j]._id = resp'.body[i]._id
                 /\ resp'.body[i].price.t = "number"
                 /\ ~products[j].price.inf
                 /\ resp'.body[i].price.n = products[j].price.n]_vars

\* C25: a step of POST /api/products persists a product only with the
\* upload of its file done, the product carrying the URL of the file it
\* stored, or without a file and with imageUrl = ""; a request whose upload
\* failed persists no product; a request stores at most one file and one
\* product, and one that failed in the upload or in the save is answered
\* with its failure, nothing being persisted by another attempt.
C25_UploadBeforePersist ==
    [][Handles("createProduct")
       => LET req == resp'.req IN
          /\ products' # products
             => /\ Len(products') = Len(products) + 1
                /\ SubSeq(products', 1, Len(products)) = products
                /\ IF "file" \in DOMAIN req
                   THEN /\ Len(images') = Len(images) + 1
                        /\ SubSeq(images', 1, Len(images)) = images
                        /\ products'[Len(products')].imageUrl = images'[Len(images')]
                   ELSE /\ images' = images
                        /\ products'[Len(products')].imageUrl = <<>>
          /\ ("file" \in DOMAIN req /\ images' = images) => products' = products
          /\ Len(images') <= Len(images) + 1
          /\ resp'.status >= 500 => products' = products
          /\ "file" \notin DOMAIN req => images' = images]_vars

\* A request with a file was answered 500, was sent again, and is stored
\* now with the URL of the file that the store holds.
C25_Witness ==
    /\ resp.op = "createProduct"
    /\ resp.status = 201
    /\ resp.again = 500
    /\ "file" \in DOMAIN resp.req
    /\ Len(images) = 1
    /\ products[Len(products)].imageUrl = images[1]

\* C29: a POST /api/products answered 400 for its name, description, price
\* or category leaves the Products collection and the image store as they
\* were, with or without a file attached.
C29_RejectedLeavesNoTrace ==
    [][(Handles("createProduct") /\ resp'.status = 400)
       => (products' = products /\ images' = images)]_vars

\* The request of the answer matches no route that its server registers.
Unrouted ==
    /\ resp.op \in {"preflight", "notFound"}
    /\ \A route \in Routes(resp.req.server) :
           ~MatchesRoute(route, resp.req.method, resp.req.path)

\* C23: a request whose method and path match no registered route is
\* answered 404 with a list of routes; every route of the list is
\* registered, and every registered route under /api is in the list.
C23_NotFoundListsRoutes ==
    Unrouted
    => /\ resp.status = 404
       /\ "availableRoutes" \in resp.keys
       /\ resp.body.availableRoutes \subseteq Routes(resp.req.server)
       /\ {route \in Routes(resp.req.server) :
               route.path # <<>> /\ route.path[1] = "api"}
             \subseteq resp.body.availableRoutes

\* C26: once the connection to the database has failed at startup the
\* process exits with code 1, and from the failure on no request is
\* answered with a status of success.
C26_StartupFailureIsFatal ==
    /\ (proc = "failed") ~> (proc = "exit(1)")
    /\ [][proc \notin {"connecting", "connected"}
           => ~(resp' # resp /\ resp'.status \in 200..299)]_vars

\* The process has exited with code 1, a request having been answered
\* before the connection failed.
C26_Witness ==
    /\ proc = "exit(1)"
    /\ resp.op = "createOrder"
    /\ resp.status = 400

\* C27: when a register and a patch request for one existing user have
\* both completed, however their reads and saves interleaved, the user is
\* what it is after register then patch or after patch then register, each
\* run from its read to its save without the other in between.
C27_RaceIsSerial ==
    (plan.sent = {"register", "patch"} /\ pending = {})
    => \/ users = <<PatchUpdate(RegisterUpdate(plan.user, plan.register), plan.patch)>>
       \/ users = <<RegisterUpdate(PatchUpdate(plan.user, plan.patch), plan.register)>>

\* C28: a create-basic or register request that found no user with its
\* email, and whose document is valid, is answered 201 and its user is
\* stored, or, another request having created the user of that email
\* meanwhile, is answered 200 with that user; it is never answered with an
\* error.
C28_RaceCreatesOnce ==
    [][\A p \in pending :
          (/\ p \notin pending'
           /\ p.op \in {"createBasic", "register"}
           /\ p.idx = 0
           /\ ValidUser(p.doc))
          => \/ /\ resp'.status = 201
                /\ users' = Append(users, p.doc)
             \/ /\ resp'.status = 200
                /\ users' = users
                /\ \E i \in 1..Len(users) :
                       users[i].email = p.doc.email /\ resp'.user = users[i]]_vars

\* C30: the fulfilled of every stored order is true or false at all times,
\* and a PATCH /api/orders/:id that is answered 200 carried a fulfilled
\* that is the value the order has after it.
C30_FulfilledIsBoolean ==
    [][/\ \A i \in 1..Len(orders') : orders'[i].fulfilled.t = "boolean"
       /\ (Handles("patchOrder") /\ resp'.status = 200)
          => /\ "fulfilled" \in DOMAIN resp'.req.body
             /\ resp'.order.fulfilled = resp'.req.body.fulfilled]_vars

====
